---------------------------- MODULE Spec2Model ----------------------------
(***************************************************************************)
(* The index algebra (src/src/tlog.rs) and the tile geometry              *)
(* (src/src/tile.rs) of the tile crate, as a state machine whose steps are *)
(* calls of the crate's functions.                                         *)
(*                                                                         *)
(* Scale.  The functions whose arithmetic can leave the machine word       *)
(* (everything in tlog.rs, Tile::for_index, Tiles::new) are modelled on a  *)
(* usize that is WordBits wide instead of 64: usize::MAX is 2^WordBits-1,  *)
(* the source's 63 (= usize::BITS - 1) is WordBits - 1, and the heights    *)
(* offered to them stay below WordBits as the source's 30 stays below 64.  *)
(* Every input of that word is enumerated.  Tile::new, Display and format  *)
(* cannot overflow on any input and are modelled with the source's own     *)
(* numbers (30, 63, 1000, 7); the 64-bit offsets Display formats are held  *)
(* as three base-10^6 limbs.                                               *)
(*                                                                         *)
(* Build profile.  An overflowing +, -, *, << or >> panics when the crate  *)
(* is built with overflow checks (cargo's dev and test profiles, which     *)
(* also enable debug_assert!) and wraps otherwise (the release profile).   *)
(* debug_build is chosen once, in Init, and every operator follows it.     *)
(***************************************************************************)
EXTENDS Integers, Sequences, FiniteSets

VARIABLES debug_build, op, args, ret

vars == <<debug_build, op, args, ret>>

\* Width of the modelled usize/isize.
WordBits == 8

Modulus == 2 ^ WordBits
MaxWord == Modulus - 1
IsizeMax == (Modulus \div 2) - 1
IsizeMin == 0 - (Modulus \div 2)

\* Outcomes that are no value: a panic, and a loop that never leaves.
Panic == -1
Hang == -2

Failed(x) == x < 0

(***************************************************************************)
(* usize arithmetic.  A failed operand is passed on.                       *)
(***************************************************************************)
Word(v) ==
    IF 0 <= v /\ v <= MaxWord THEN v
    ELSE IF debug_build THEN Panic
    ELSE v % Modulus

Add(a, b) == IF Failed(a) THEN a ELSE IF Failed(b) THEN b ELSE Word(a + b)

Sub(a, b) == IF Failed(a) THEN a ELSE IF Failed(b) THEN b ELSE Word(a - b)

Mul(a, b) == IF Failed(a) THEN a ELSE IF Failed(b) THEN b ELSE Word(a * b)

\* a << s: only a shift amount outside 0..BITS-1 overflows (it is masked
\* when unchecked); bits shifted out of the word are dropped silently.
Shl(a, s) ==
    IF Failed(a) THEN a
    ELSE IF 0 <= s /\ s < WordBits THEN (a * 2 ^ s) % Modulus
    ELSE IF debug_build THEN Panic
    ELSE (a * 2 ^ (s % WordBits)) % Modulus

Shr(a, s) ==
    IF Failed(a) THEN a
    ELSE IF 0 <= s /\ s < WordBits THEN a \div 2 ^ s
    ELSE IF debug_build THEN Panic
    ELSE a \div 2 ^ (s % WordBits)

RECURSIVE TrailingZerosFrom(_, _)
TrailingZerosFrom(x, k) ==
    IF x % 2 = 1 THEN k ELSE TrailingZerosFrom(x \div 2, k + 1)

\* usize::trailing_zeros: the word's width for 0.
TrailingZeros(x) ==
    IF Failed(x) THEN x
    ELSE IF x = 0 THEN WordBits
    ELSE TrailingZerosFrom(x, 0)

\* u as isize, and s as usize: casts never panic.
AsIsize(u) == IF u > IsizeMax THEN u - Modulus ELSE u

AsUsize(s) == s % Modulus

(***************************************************************************)
(* tlog.rs                                                                 *)
(***************************************************************************)

\* for _ in (1..=level).rev() { n = 2 * n + 1; }
RECURSIVE LevelFold(_, _)
LevelFold(level, n) ==
    IF level < 1 THEN n
    ELSE LevelFold(level - 1, Add(Mul(2, n), 1))

\* let mut i = 0; while n > 0 { i += n; n >>= 1; }
RECURSIVE SumShifts(_, _)
SumShifts(n, i) ==
    IF Failed(n) THEN n
    ELSE IF n = 0 THEN i
    ELSE SumShifts(n \div 2, Add(i, n))

\* ((i as isize) + level) as usize
AddLevel(i, level) ==
    IF Failed(i) THEN i
    ELSE LET s == AsIsize(i) + level
         IN  IF (s > IsizeMax \/ s < IsizeMin) /\ debug_build THEN Panic
             ELSE AsUsize(s)

stored_hash_index(level, n) ==
    IF debug_build /\ (level < -1 \/ level > WordBits - 1) THEN Panic
    ELSE AddLevel(SumShifts(LevelFold(level, n), 0), level)

\* let mut l = 0; while 1 << (l + 1) < n { l += 1; }  (1 << l, l)
\* The shift amount reaches the word's width only when 1 << (BITS - 1) < n.
\* The checked build panics there.  Unchecked, the amount is masked, every
\* 1 << s the loop can then form is below n, and the loop never leaves.
RECURSIVE maxpow2_loop(_, _)
maxpow2_loop(n, l) ==
    IF l + 1 >= WordBits THEN (IF debug_build THEN Panic ELSE Hang)
    ELSE IF Shl(1, l + 1) < n THEN maxpow2_loop(n, l + 1)
    ELSE l

\* The pair (1 << l, l), as <<k, level>>; a failure fills both places.
maxpow2(n) ==
    LET l == maxpow2_loop(n, 0)
    IN  IF Failed(l) THEN <<l, l>> ELSE <<Shl(1, l), l>>

\* What a function returning a struct returns when it returns nothing:
\* why is "panic" or "hang" (from a failed word), or "none" (Option::None).
Why(code) == IF code = Panic THEN "panic" ELSE "hang"

Failure(code) == [ok |-> FALSE, why |-> Why(code)]

None == [ok |-> FALSE, why |-> "none"]

\* The loop of split_stored_hash_index, from record n with index_n.
\*   let x = index_n + 1 + (n + 1).trailing_zeros() as usize;
\*   if x > index { break; }   n += 1;   index_n = x;
\* The result is <<n, index_n>>; a failure fills both places.  No word is
\* above usize::MAX: for that index the checked build runs until x
\* overflows, and the unchecked build, whose x wraps, never leaves the loop.
RECURSIVE split_loop(_, _, _)
split_loop(index, n, index_n) ==
    LET x == Add(Add(index_n, 1), TrailingZeros(Add(n, 1)))
    IN  IF Failed(x) THEN <<x, x>>
        ELSE IF x > index THEN <<n, index_n>>
        ELSE IF index = MaxWord /\ ~debug_build THEN <<Hang, Hang>>
        ELSE split_loop(index, Add(n, 1), x)

\* Coordinate::split_stored_hash_index: a Coordinate, or a failure.
split_stored_hash_index(index) ==
    LET n0 == index \div 2
        index_n0 == stored_hash_index(0, n0)
    IN  IF Failed(index_n0) THEN Failure(index_n0)
        ELSE IF debug_build /\ ~(index_n0 <= index) THEN Failure(Panic)
        ELSE LET r == split_loop(index, n0, index_n0)
                 level == AsIsize(Sub(index, r[2]))
                 n == Shr(r[1], level)
             IN  IF Failed(r[1]) THEN Failure(r[1])
                 ELSE IF Failed(Sub(index, r[2])) THEN Failure(Sub(index, r[2]))
                 ELSE IF Failed(n) THEN Failure(n)
                 ELSE [ok |-> TRUE, level |-> level, n |-> n]

\* The loop of stored_hash_count: while i & 1 != 0 { num_hash += 1; i >>= 1; }
RECURSIVE count_loop(_, _)
count_loop(num_hash, i) ==
    IF Failed(num_hash) THEN num_hash
    ELSE IF i % 2 = 1 THEN count_loop(Add(num_hash, 1), i \div 2)
    ELSE num_hash

stored_hash_count(n) ==
    IF n = 0 THEN 0
    ELSE count_loop(Add(stored_hash_index(0, n), 1), n - 1)

(***************************************************************************)
(* sub_tree_index: the iterator's state is lo; one call of next().         *)
(* The result is [lo, item]: the new lo and the index yielded, or a        *)
(* failed word in both.  next() is only modelled for lo < hi.              *)
(***************************************************************************)
sub_tree_next(lo, hi) ==
    LET n == Add(Sub(hi, lo), 1)
        kl == maxpow2(n)
        k == kl[1]
        level == kl[2]
        index == stored_hash_index(level, Shr(lo, level))
    IN  IF Failed(n) THEN [lo |-> n, item |-> n]
        ELSE IF Failed(k) THEN [lo |-> k, item |-> k]
        ELSE IF debug_build /\ lo % k # 0 THEN [lo |-> Panic, item |-> Panic]
        ELSE IF Failed(index) THEN [lo |-> index, item |-> index]
        ELSE IF Failed(Add(lo, k)) THEN [lo |-> Add(lo, k), item |-> Add(lo, k)]
        ELSE [lo |-> Add(lo, k), item |-> index]

(***************************************************************************)
(* tile.rs                                                                 *)
(***************************************************************************)
HEIGHT_MAX == 30
LEVEL_MAX == 63

Tile(height, level, n, width) ==
    [height |-> height, level |-> level, n |-> n, width |-> width]

\* Tile::new, with the source's numbers: 1 << height is formed only for
\* height <= 30 and cannot overflow.
TileNew(height, level, n, width) ==
    IF height > HEIGHT_MAX THEN None
    ELSE IF level < -1 \/ level > LEVEL_MAX THEN None
    ELSE IF width < 1 \/ width > 2 ^ height THEN None
    ELSE [ok |-> TRUE, tile |-> Tile(height, level, n, width)]

\* isize division truncates toward zero.
TruncDiv(a, b) == IF a >= 0 THEN a \div b ELSE 0 - ((0 - a) \div b)

\* Tile::for_index
for_index(height, index) ==
    IF height = 0 \/ height > HEIGHT_MAX THEN None
    ELSE LET c == split_stored_hash_index(index)
         IN  IF ~c.ok THEN c
             ELSE LET tile_level == TruncDiv(c.level, height)
                      level == c.level - tile_level * height
                      tile_n == Shr(Shl(c.n, level), height)
                      n == Sub(c.n, Shr(Shl(tile_n, height), level))
                      width == Shl(Add(n, 1), level)
                  IN  IF Failed(tile_n) THEN Failure(tile_n)
                      ELSE IF Failed(width) THEN Failure(width)
                      ELSE [ok |-> TRUE,
                            tile |-> Tile(height, tile_level, tile_n, width)]

\* while n < new_n >> height { tiles.push(Tile::new(height, level, n, 1 << height)?); n += 1; }
\* made holds what Tile::new returns for n, n + 1, ..., end - 1; the ? returns
\* None from Tiles::new at the first None among them.
full_tiles(height, level, n, end, acc) ==
    LET made == [i \in 1 .. (end - n) |->
                    TileNew(height, level, n + i - 1, Shl(1, height))]
    IN  IF ~acc.ok THEN acc
        ELSE IF Failed(Shl(1, height)) THEN Failure(Shl(1, height))
        ELSE IF \E i \in DOMAIN made : ~made[i].ok THEN None
        ELSE [acc EXCEPT !.tiles = @ \o [i \in DOMAIN made |-> made[i].tile]]

\* let n = new_n >> height; let width = new_n - (n << height);
\* if width > 0 { tiles.push(Tile::new(height, level, n, width)?); }
partial_tile(height, level, new_n, acc) ==
    LET n == Shr(new_n, height)
        width == Sub(new_n, Shl(n, height))
        t == TileNew(height, level, n, width)
    IN  IF ~acc.ok THEN acc
        ELSE IF Failed(width) THEN Failure(width)
        ELSE IF width > 0
        THEN (IF t.ok THEN [acc EXCEPT !.tiles = Append(@, t.tile)] ELSE None)
        ELSE acc

\* The body of for level in 0..=63, from level on (63 is usize::BITS - 1).
\* acc.tiles is the vector; acc.shifts records, for the claims about them,
\* the shift amounts height * level evaluated so far.
RECURSIVE tiles_levels(_, _, _, _, _)
tiles_levels(height, old_tree_size, new_tree_size, level, acc) ==
    IF ~acc.ok \/ level > WordBits - 1 THEN acc
    ELSE LET new_n == Shr(new_tree_size, height * level)
             old_n == Shr(old_tree_size, height * level)
             seen == [acc EXCEPT !.shifts = Append(@, height * level)]
         IN  IF Failed(new_n) THEN Failure(new_n)
             ELSE IF new_n = 0 THEN seen
             ELSE IF old_n = new_n
             THEN tiles_levels(height, old_tree_size, new_tree_size, level + 1, seen)
             ELSE tiles_levels(height, old_tree_size, new_tree_size, level + 1,
                      partial_tile(height, level, new_n,
                          full_tiles(height, level, Shr(old_n, height),
                                     Shr(new_n, height), seen)))

\* Tiles::new
TilesNew(height, old_tree_size, new_tree_size) ==
    IF height = 0 \/ height > HEIGHT_MAX THEN None
    ELSE tiles_levels(height, old_tree_size, new_tree_size, 0,
                      [ok |-> TRUE, tiles |-> <<>>, shifts |-> <<>>])

(***************************************************************************)
(* Display.  A 64-bit offset n is the limbs <<a, b, c>> of                 *)
(* a * 10^12 + b * 10^6 + c; text is a sequence of one-character strings.  *)
(***************************************************************************)
PATH_BASE == 1000
BUF_LEN == 7

Limb == PATH_BASE * PATH_BASE

\* n % PATH_BASE, n < PATH_BASE and n / PATH_BASE on limbs.
BigMod(n) == n[3] % PATH_BASE

BigLess(n) == n[1] = 0 /\ n[2] = 0 /\ n[3] < PATH_BASE

BigDiv(n) ==
    << n[1] \div PATH_BASE,
       (n[1] % PATH_BASE) * PATH_BASE + n[2] \div PATH_BASE,
       (n[2] % PATH_BASE) * PATH_BASE + n[3] \div PATH_BASE >>

\* The limbs of an offset below 10^12.
ToBig(n) == <<0, n \div Limb, n % Limb>>

\* for (i, v) in buf.iter_mut().enumerate().rev():
\*   *v = n % PATH_BASE; if n < PATH_BASE { return &buf[i..]; } n /= PATH_BASE;
\* and &buf[..] when the loop ends.  groups is buf[i+1..].
RECURSIVE format_from(_, _, _)
format_from(n, i, groups) ==
    LET buf == <<BigMod(n)>> \o groups
    IN  IF BigLess(n) THEN buf
        ELSE IF i = 0 THEN buf
        ELSE format_from(BigDiv(n), i - 1, buf)

\* format over a buffer one element shorter.
format_short(n) == format_from(n, BUF_LEN - 2, <<>>)

format(n) == format_from(n, BUF_LEN - 1, <<>>)

Digit(d) == <<"0", "1", "2", "3", "4", "5", "6", "7", "8", "9">>[d + 1]

\* {v} for an unsigned v
RECURSIVE Dec(_)
Dec(v) == IF v < 10 THEN <<Digit(v)>> ELSE Dec(v \div 10) \o <<Digit(v % 10)>>

\* {level} for an isize
SignedDec(v) == IF v < 0 THEN <<"-">> \o Dec(0 - v) ELSE Dec(v)

\* {v:03}
Pad3(v) ==
    LET d == Dec(v)
    IN  IF Len(d) >= 3 THEN d
        ELSE IF Len(d) = 2 THEN <<"0">> \o d
        ELSE <<"0", "0">> \o d

\* for v in last { write!(f, "x{v:03}/") }
RECURSIVE XGroups(_)
XGroups(vs) ==
    IF vs = <<>> THEN <<>>
    ELSE <<"x">> \o Pad3(Head(vs)) \o <<"/">> \o XGroups(Tail(vs))

\* <Tile as Display>::fmt
Display(t) ==
    LET groups == format(t.n)
    IN  <<"t", "i", "l", "e", "/">> \o Dec(t.height) \o <<"/">>
        \o (IF t.level = -1 THEN <<"d", "a", "t", "a", "/">>
            ELSE SignedDec(t.level) \o <<"/">>)
        \o XGroups(SubSeq(groups, 1, Len(groups) - 1))
        \o Pad3(groups[Len(groups)])
        \o (IF t.width # 2 ^ t.height THEN <<".", "p", "/">> \o Dec(t.width)
            ELSE <<>>)

(***************************************************************************)
(* The driver: one call at a time, from the idle state and back.  A log    *)
(* grows by single appends, and a sub_tree_index iterator is stepped by    *)
(* next() until it yields None.                                            *)
(***************************************************************************)
\* Largest height offered to for_index and Tiles::new (below WordBits).
MaxHeight == 3
\* Tree sizes and range ends up to SmallSize are all offered.
SmallSize == 18

Words == 0 .. MaxWord

Levels == 0 .. WordBits - 1

Heights == (0 .. MaxHeight) \cup {HEIGHT_MAX + 1}

\* The small sizes, the sizes next to a power of two, the largest ones.
TreeSizes ==
    {s \in Words :
        \/ s <= SmallSize
        \/ s >= MaxWord - 1
        \/ \E k \in Levels : s \in {2 ^ k - 1, 2 ^ k, 2 ^ k + 1}}

\* Arguments of Tile::new around each limit.
NewHeights == {0, 1, 2, HEIGHT_MAX - 1, HEIGHT_MAX, HEIGHT_MAX + 1, LEVEL_MAX + 1}

NewLevels == {-2, -1, 0, 1, LEVEL_MAX - 1, LEVEL_MAX, LEVEL_MAX + 1}

NewWidths(height) ==
    {0, 1, 2, 3} \cup
    (IF height <= HEIGHT_MAX
     THEN {2 ^ height - 1, 2 ^ height, 2 ^ height + 1} ELSE {})

\* 64-bit offsets: around each power of PATH_BASE, the tests' offsets,
\* usize::MAX = 18446744 073709 551615.
Offsets ==
    {ToBig(n) : n \in 0 .. SmallSize} \cup
    {ToBig(n) : n \in {999, 1000, 1001, 65536, 999999, 1000000, 1234067,
                       3057500, 123456078, 999999999, 1000000000}} \cup
    { <<0, 999999, 999999>>, <<1, 0, 0>>, <<999, 999999, 999999>>,
      <<1000, 0, 0>>, <<999999, 999999, 999999>>, <<1000000, 0, 0>>,
      <<9223372, 36854, 775807>>, <<9223372, 36854, 775808>>,
      <<18446744, 73709, 551614>>, <<18446744, 73709, 551615>> }

\* #[derive(Default)]: every field 0.
TileDefault == Tile(0, 0, ToBig(0), 0)

\* The tiles a caller can hold: those Tile::new returns, and the default.
DisplayTiles ==
    {TileDefault} \cup
    UNION {
        {TileNew(height, level, n, width).tile :
            level \in NewLevels \cap (-1 .. LEVEL_MAX), n \in Offsets,
            width \in {w \in NewWidths(height) :
                          TileNew(height, 0, 0, w).ok}}
        : height \in NewHeights \cap (0 .. HEIGHT_MAX)}

Init ==
    /\ debug_build \in BOOLEAN
    /\ op = "idle"
    /\ args = <<>>
    /\ ret = <<>>

\* want.stored_hash_index() and then split_stored_hash_index of it, as in
\* the doc test and test_split_stored_hash_index.
CallRoundTrip ==
    /\ op = "idle"
    /\ \E level \in Levels, n \in Words :
        LET index == stored_hash_index(level, n)
        IN  /\ op' = "round_trip"
            /\ args' = [level |-> level, n |-> n]
            /\ ret' = [index |-> index,
                       coord |-> IF Failed(index) THEN Failure(index)
                                 ELSE split_stored_hash_index(index)]
    /\ UNCHANGED debug_build

CallSplit ==
    /\ op = "idle"
    /\ \E index \in Words :
        /\ op' = "split_stored_hash_index"
        /\ args' = [index |-> index]
        /\ ret' = split_stored_hash_index(index)
    /\ UNCHANGED debug_build

\* An empty log, and stored_hash_count of it.
StartLog ==
    /\ op = "idle"
    /\ op' = "log"
    /\ args' = [n |-> 0]
    /\ ret' = [count |-> stored_hash_count(0), before |-> 0]
    /\ UNCHANGED debug_build

\* One more record: stored_hash_count of the new size, and the count before.
AppendRecord ==
    /\ op = "log"
    /\ args.n < MaxWord
    /\ ~Failed(ret.count)
    /\ args' = [n |-> args.n + 1]
    /\ ret' = [count |-> stored_hash_count(args.n + 1), before |-> ret.count]
    /\ UNCHANGED <<debug_build, op>>

CallTileNew ==
    /\ op = "idle"
    /\ \E height \in NewHeights, level \in NewLevels, n \in {0, 1, MaxWord} :
       \E width \in NewWidths(height) :
        /\ op' = "Tile::new"
        /\ args' = [height |-> height, level |-> level, n |-> n, width |-> width]
        /\ ret' = TileNew(height, level, n, width)
    /\ UNCHANGED debug_build

CallForIndex ==
    /\ op = "idle"
    /\ \E height \in Heights, index \in Words :
        /\ op' = "Tile::for_index"
        /\ args' = [height |-> height, index |-> index]
        /\ ret' = for_index(height, index)
    /\ UNCHANGED debug_build

CallTilesNew ==
    /\ op = "idle"
    /\ \E height \in Heights, old \in TreeSizes, new \in TreeSizes :
        /\ op' = "Tiles::new"
        /\ args' = [height |-> height, old_tree_size |-> old, new_tree_size |-> new]
        /\ ret' = TilesNew(height, old, new)
    /\ UNCHANGED debug_build

\* tile.to_string()
CallDisplay ==
    /\ op = "idle"
    /\ \E t \in DisplayTiles :
        /\ op' = "Display"
        /\ args' = t
        /\ ret' = Display(t)
    /\ UNCHANGED debug_build

\* sub_tree_index(lo, hi, need): the iterator, nothing yielded yet.
StartSubTree ==
    /\ op = "idle"
    /\ \E lo \in TreeSizes, hi \in TreeSizes :
        /\ lo <= hi
        /\ op' = "sub_tree_index"
        /\ args' = [lo |-> lo, hi |-> hi]
        /\ ret' = [lo |-> lo, out |-> <<>>, state |-> "iterating"]
    /\ UNCHANGED debug_build

\* next(): Some(index) while lo < hi, None after; a panic or a hang ends it.
NextSubTree ==
    /\ op = "sub_tree_index"
    /\ ret.state = "iterating"
    /\ ret' = IF ret.lo < args.hi
              THEN LET r == sub_tree_next(ret.lo, args.hi)
                   IN  IF Failed(r.lo) THEN [ret EXCEPT !.state = Why(r.lo)]
                       ELSE [lo |-> r.lo, out |-> Append(ret.out, r.item),
                             state |-> "iterating"]
              ELSE [ret EXCEPT !.state = "done"]
    /\ UNCHANGED <<debug_build, op, args>>

Return ==
    /\ op # "idle"
    /\ op' = "idle"
    /\ args' = <<>>
    /\ ret' = <<>>
    /\ UNCHANGED debug_build

Next ==
    \/ CallRoundTrip
    \/ CallSplit
    \/ StartLog
    \/ AppendRecord
    \/ CallTileNew
    \/ CallForIndex
    \/ CallTilesNew
    \/ CallDisplay
    \/ StartSubTree
    \/ NextSubTree
    \/ Return

Spec == Init /\ [][Next]_vars

(***************************************************************************)
(* The tree the claims speak of, in unbounded arithmetic.                  *)
(***************************************************************************)
\* The level-0 record that completes the subtree of (level, n): level
\* doublings n -> 2n + 1.
LastRecord(level, n) == (n + 1) * 2 ^ level - 1

\* r + r/2 + r/4 + ...: the hashes stored before the leaf hash of record r.
RECURSIVE HalvingSum(_)
HalvingSum(r) == IF r = 0 THEN 0 ELSE r + HalvingSum(r \div 2)

\* The place of (level, n) in the storage order.
TrueIndex(level, n) == HalvingSum(LastRecord(level, n)) + level

\* (level, n) is complete in a tree of size records.
Complete(level, n, size) == (n + 1) * 2 ^ level <= size

\* Every coordinate complete in a tree of size records.
CompleteSet(size) ==
    {c \in (0 .. WordBits) \X (0 .. size) : Complete(c[1], c[2], size)}

(***************************************************************************)
(* C1.  For every level in 0..=63 and every n whose level-fold doubling    *)
(* n -> 2n + 1 stays inside the machine word,                              *)
(* split_stored_hash_index(stored_hash_index(level, n)) returns exactly    *)
(* Coordinate{level, n}.                                                   *)
(***************************************************************************)
RoundTripReturnsCoordinate ==
    (op = "round_trip" /\ LastRecord(args.level, args.n) <= MaxWord)
        => ret.coord = [ok |-> TRUE, level |-> args.level, n |-> args.n]

(***************************************************************************)
(* C2.  The storage index is dense: for every index i,                     *)
(* split_stored_hash_index(i) yields a coordinate (level, n) with          *)
(* level >= 0 and stored_hash_index(level, n) = i, no other coordinate has *)
(* that index, and the estimate satisfies stored_hash_index(0, i/2) <= i.  *)
(***************************************************************************)
EveryIndexHasOneCoordinate ==
    op = "split_stored_hash_index" =>
        /\ ~Failed(stored_hash_index(0, args.index \div 2))
        /\ stored_hash_index(0, args.index \div 2) <= args.index
        /\ ret.ok
        /\ ret.level >= 0
        /\ stored_hash_index(ret.level, ret.n) = args.index
        /\ \A level \in Levels, n \in Words :
              TrueIndex(level, n) = args.index
                  => (level = ret.level /\ n = ret.n)

(***************************************************************************)
(* C3.  stored_hash_count(n) is the number of hashes stored after n        *)
(* records: 0 for n = 0; for n >= 1 the number of coordinates complete in  *)
(* an n-record tree, and a coordinate is complete in that tree exactly     *)
(* when its stored_hash_index is below stored_hash_count(n).               *)
(***************************************************************************)
CountIsTheNumberOfStoredHashes ==
    op = "log" =>
        IF args.n = 0 THEN ret.count = 0
        ELSE /\ ret.count = Cardinality(CompleteSet(args.n))
             /\ \A level \in Levels, n \in Words :
                    TrueIndex(level, n) <= MaxWord =>
                        (Complete(level, n, args.n)
                            <=> (/\ ~Failed(stored_hash_index(level, n))
                                 /\ stored_hash_index(level, n) < ret.count))

(***************************************************************************)
(* C4.  stored_hash_count never goes down along single-record appends:     *)
(* stored_hash_count(n + 1) >= stored_hash_count(n).                       *)
(***************************************************************************)
CountNeverGoesDown ==
    op = "log" => (~Failed(ret.count) /\ ret.count >= ret.before)


(***************************************************************************)
(* The tiling of a tree of size leaves at a height: at each level L the    *)
(* full tiles n < (size >> height*L) >> height and, when                   *)
(* (size >> height*L) mod 2^height is not 0, one partial tile of that      *)
(* width.  Levels past WordBits hold nothing of a tree that fits the word. *)
(***************************************************************************)
Units(height, size, L) == size \div 2 ^ (height * L)

TilingLevels(height) == 0 .. (WordBits \div height)

Tiling(height, size) ==
    UNION {
        {Tile(height, L, n, 2 ^ height) :
            n \in 0 .. (Units(height, size, L) \div 2 ^ height) - 1}
        \cup
        (IF Units(height, size, L) % 2 ^ height # 0
         THEN {Tile(height, L, Units(height, size, L) \div 2 ^ height,
                    Units(height, size, L) % 2 ^ height)}
         ELSE {})
        : L \in TilingLevels(height)}

\* tiles is in strictly ascending (level, n) order.
Ascending(tiles) ==
    \A i \in 1 .. Len(tiles) - 1 :
        \/ tiles[i].level < tiles[i + 1].level
        \/ (tiles[i].level = tiles[i + 1].level /\ tiles[i].n < tiles[i + 1].n)

(***************************************************************************)
(* C5.  For 1 <= height <= 30 and old_tree_size <= new_tree_size,          *)
(* Tiles::new returns, in strictly ascending (level, n) order, exactly the *)
(* tiles of the tiling of the new size that are not tiles, with the same   *)
(* width, of the tiling of the old size.                                   *)
(***************************************************************************)
TilesNewReturnsChangedTiles ==
    (/\ op = "Tiles::new"
     /\ args.height \in 1 .. HEIGHT_MAX
     /\ args.old_tree_size <= args.new_tree_size)
        => /\ ret.ok
           /\ Ascending(ret.tiles)
           /\ {ret.tiles[i] : i \in DOMAIN ret.tiles}
                = Tiling(args.height, args.new_tree_size)
                    \ Tiling(args.height, args.old_tree_size)

(***************************************************************************)
(* C6.  Tile::new(height, level, n, width) produces no value whenever      *)
(* height is outside 1..=30, level is outside -1..=63 or width is outside  *)
(* 1..=2^height, and a tile with exactly those fields otherwise; so every  *)
(* tile it produces has height in 1..=30 and width in 1..=2^height.        *)
(***************************************************************************)
TileNewValidates ==
    op = "Tile::new" =>
        /\ IF /\ args.height \in 1 .. 30
              /\ args.level \in -1 .. 63
              /\ args.width \in 1 .. 2 ^ args.height
           THEN ret = [ok |-> TRUE,
                       tile |-> Tile(args.height, args.level, args.n, args.width)]
           ELSE ret = None
        /\ ret.ok => /\ ret.tile.height \in 1 .. 30
                     /\ ret.tile.width \in 1 .. 2 ^ ret.tile.height

(***************************************************************************)
(* Reading a path back: its pieces between the "/" characters, and the     *)
(* number a run of decimal digits writes.                                  *)
(***************************************************************************)
Cuts(text) ==
    {0} \cup {i \in DOMAIN text : text[i] = "/"} \cup {Len(text) + 1}

\* The k-th cut, counting from 0.
Cut(text, k) ==
    CHOOSE c \in Cuts(text) : Cardinality({d \in Cuts(text) : d < c}) = k

Segments(text) ==
    [k \in 1 .. Cardinality(Cuts(text)) - 1 |->
        SubSeq(text, Cut(text, k - 1) + 1, Cut(text, k) - 1)]

IsDigits(s) == s # <<>> /\ \A i \in DOMAIN s : \E d \in 0 .. 9 : s[i] = Digit(d)

\* Digits with no leading zero, as {v} prints.
IsDecimal(s) == IsDigits(s) /\ (Len(s) > 1 => s[1] # "0")

DigitValue(c) == CHOOSE d \in 0 .. 9 : Digit(d) = c

RECURSIVE Number(_)
Number(s) ==
    IF s = <<>> THEN 0
    ELSE 10 * Number(SubSeq(s, 1, Len(s) - 1)) + DigitValue(s[Len(s)])

\* The seven base-1000 digits of a 64-bit offset, most significant first.
Base1000(n) ==
    << n[1] \div 1000000, (n[1] \div 1000) % 1000, n[1] % 1000,
       n[2] \div 1000, n[2] % 1000, n[3] \div 1000, n[3] % 1000 >>

(***************************************************************************)
(* C7.  The Display path of a tile is "tile/{height}/", then "data" when   *)
(* level = -1 and the decimal level otherwise, then "/" and the base-1000  *)
(* digits of n most significant first, each padded to 3 digits, every      *)
(* group but the last prefixed with "x", groups joined by "/": one group   *)
(* "000" when n = 0, no leading all-zero group when n > 0, at most 7       *)
(* groups, whose values recombine to n; the suffix ".p/{width}" is present *)
(* exactly when width # 2^height.                                          *)
(***************************************************************************)
DisplayWritesTilePath ==
    op = "Display" =>
        LET segs == Segments(ret)
            partial == args.width # 2 ^ args.height
            count == Len(segs)
            lastGroup == IF partial THEN count - 1 ELSE count
            tail == segs[lastGroup]
            final == IF partial THEN SubSeq(tail, 1, Len(tail) - 2) ELSE tail
            groupCount == lastGroup - 3
            value(j) == IF j < groupCount THEN Number(Tail(segs[3 + j]))
                        ELSE Number(final)
        IN  /\ lastGroup >= 4
            /\ segs[1] = <<"t", "i", "l", "e">>
            /\ IsDecimal(segs[2]) /\ Number(segs[2]) = args.height
            /\ IF args.level = -1 THEN segs[3] = <<"d", "a", "t", "a">>
               ELSE IsDecimal(segs[3]) /\ Number(segs[3]) = args.level
            /\ groupCount <= 7
            /\ \A j \in 1 .. groupCount - 1 :
                   /\ Len(segs[3 + j]) = 4
                   /\ Head(segs[3 + j]) = "x"
                   /\ IsDigits(Tail(segs[3 + j]))
            /\ partial =>
                   /\ Len(tail) = 5
                   /\ SubSeq(tail, 4, 5) = <<".", "p">>
                   /\ IsDecimal(segs[count])
                   /\ Number(segs[count]) = args.width
            /\ Len(final) = 3 /\ IsDigits(final)
            /\ [j \in 1 .. 7 |-> IF j <= 7 - groupCount THEN 0
                                 ELSE value(j - (7 - groupCount))]
                   = Base1000(args.n)
            /\ args.n = <<0, 0, 0>> => groupCount = 1
            /\ args.n # <<0, 0, 0>> => value(1) # 0

\* The path of a partial data tile at offset usize::MAX has been written.
DisplayedLargestOffset ==
    /\ op = "Display"
    /\ args.n = <<18446744, 73709, 551615>>
    /\ args.level = -1
    /\ args.width # 2 ^ args.height
    /\ Len(Segments(ret)) = 11

(***************************************************************************)
(* C8.  For every height in 1..=30 and every index, Tile::for_index        *)
(* returns a tile T that stores the hash at that index: with (level, n) =  *)
(* split_stored_hash_index(index) and r = level mod height, T.height =     *)
(* height, T.level = level div height, the positions [n << r, (n+1) << r)  *)
(* lie inside [T.n * 2^height, T.n * 2^height + T.width), T.width is the   *)
(* smallest such width, and 1 <= T.width <= 2^height; it returns no value  *)
(* exactly when height is 0 or above 30.                                   *)
(***************************************************************************)
ForIndexReturnsStoringTile ==
    op = "Tile::for_index" =>
        IF args.height = 0 \/ args.height > 30 THEN ret = None
        ELSE LET c == split_stored_hash_index(args.index)
                 r == c.level % args.height
                 first == c.n * 2 ^ r
                 end == (c.n + 1) * 2 ^ r
                 start == ret.tile.n * 2 ^ args.height
             IN  /\ ret.ok
                 /\ c.ok
                 /\ ret.tile.height = args.height
                 /\ ret.tile.level = c.level \div args.height
                 /\ start <= first
                 /\ end = start + ret.tile.width
                 /\ 1 <= ret.tile.width
                 /\ ret.tile.width <= 2 ^ args.height

(***************************************************************************)
(* C9.  Tiles::new fails only if height is 0 or exceeds 30: for every      *)
(* height in 1..=30 and every pair of tree sizes it completes with a       *)
(* value, every inner Tile::new succeeds, every shift amount height*level  *)
(* it evaluates is below the word's width, and the level loop stops as     *)
(* soon as new_tree_size >> (height*level) is 0.                           *)
(***************************************************************************)
TilesNewFailsOnlyOnHeight ==
    op = "Tiles::new" =>
        IF args.height = 0 \/ args.height > 30 THEN ret = None
        ELSE /\ ret.ok
             /\ \A i \in DOMAIN ret.shifts :
                    /\ ret.shifts[i] < WordBits
                    /\ (args.new_tree_size \div 2 ^ ret.shifts[i] = 0)
                           => i = Len(ret.shifts)

\* The subtrees the claim C10 describes for [lo, hi): at each step the
\* largest level whose 2^level divides lo and has lo + 2^level <= hi.
StepLevel(lo, hi) ==
    CHOOSE l \in 0 .. WordBits :
        /\ lo % 2 ^ l = 0 /\ lo + 2 ^ l <= hi
        /\ \A m \in (l + 1) .. WordBits : ~(lo % 2 ^ m = 0 /\ lo + 2 ^ m <= hi)

RECURSIVE Subtrees(_, _)
Subtrees(lo, hi) ==
    IF lo >= hi THEN <<>>
    ELSE <<[level |-> StepLevel(lo, hi), n |-> lo \div 2 ^ StepLevel(lo, hi)]>>
         \o Subtrees(lo + 2 ^ StepLevel(lo, hi), hi)

(***************************************************************************)
(* C10.  For every range [lo, hi) with lo <= hi, lo aligned or not,        *)
(* sub_tree_index yields in order stored_hash_index(level, lo/k), k =      *)
(* 2^level the largest power of two that divides lo with lo + k <= hi,     *)
(* advances lo by k and stops exactly when lo = hi: no assertion fails,    *)
(* and the subtrees partition [lo, hi).                                    *)
(***************************************************************************)
SubTreeIndexPartitionsRange ==
    op = "sub_tree_index" =>
        LET want == Subtrees(args.lo, args.hi)
        IN  /\ ret.state \in {"iterating", "done"}
            /\ Len(ret.out) <= Len(want)
            /\ \A i \in DOMAIN ret.out :
                   ret.out[i] = stored_hash_index(want[i].level, want[i].n)
            /\ ret.state = "done" => (Len(ret.out) = Len(want) /\ ret.lo = args.hi)


(***************************************************************************)
(* What holds away from the inputs that refute C1, C2, C5, C6, C8, C9 and  *)
(* C10.                                                                    *)
(***************************************************************************)
\* The round trip returns the coordinate when its index is below usize::MAX.
RoundTripBelowLargestIndex ==
    (op = "round_trip" /\ TrueIndex(args.level, args.n) < MaxWord)
        => ret.coord = [ok |-> TRUE, level |-> args.level, n |-> args.n]

\* Every index below usize::MAX has its one coordinate.
SplitBelowLargestIndex ==
    (op = "split_stored_hash_index" /\ args.index < MaxWord)
        => EveryIndexHasOneCoordinate

\* for_index returns the storing tile for every index below usize::MAX.
ForIndexBelowLargestIndex ==
    (op = "Tile::for_index" /\ args.index < MaxWord)
        => ForIndexReturnsStoringTile

\* Tile::new validates every argument but a height of 0.
TileNewValidatesNonZeroHeight ==
    (op = "Tile::new" /\ args.height # 0) => TileNewValidates

\* Tiles::new is right when the level after the last non-empty one still
\* shifts by less than the word's width.
TilesNewWithoutShiftOverflow ==
    (/\ op = "Tiles::new"
     /\ args.height \in 1 .. HEIGHT_MAX
     /\ args.new_tree_size
            < 2 ^ (args.height * ((WordBits - 1) \div args.height)))
        => (TilesNewReturnsChangedTiles /\ TilesNewFailsOnlyOnHeight)

\* sub_tree_index partitions [0, hi) when hi + 1 <= 1 << (BITS - 1).
SubTreeIndexFromZero ==
    (op = "sub_tree_index" /\ args.lo = 0 /\ args.hi < 2 ^ (WordBits - 1))
        => SubTreeIndexPartitionsRange

=============================================================================
